---- MODULE Spec2Model ----
(***************************************************************************)
(* A model of textual_fspicker's DirectoryNavigation widget                *)
(* (src/src/textual_fspicker/parts/directory_navigation.py): the current   *)
(* location, the raw entry cache filled by a threaded exclusive worker,    *)
(* the displayed option list rebuilt from the cache, the highlight and     *)
(* the multi-selection set; and of the FileOpen dialog that hosts it      *)
(* (base_dialog.py, file_dialog.py, file_open.py): the messages of the     *)
(* widget it handles, its error text, its path label and its result.       *)
(*                                                                         *)
(* Paths are sequences of names (<<>> is the filesystem root).  Indexes    *)
(* into the option list are 0-based as in the code; None is NoneIdx.       *)
(***************************************************************************)
EXTENDS Integers, Sequences, FiniteSets, TLC

VARIABLES
    mounted,          \* DirectoryNavigation._mounted
    location,         \* DirectoryNavigation._location (reactive)
    initial_location, \* DirectoryNavigation._initial_location
    entries,          \* DirectoryNavigation._entries: locations of the cached entries
    options,          \* the OptionList's options: rows [location, selected]
    highlighted,      \* OptionList.highlighted: 0-based index or NoneIdx
    file_filter,      \* DirectoryNavigation.file_filter
    show_files,       \* DirectoryNavigation.show_files
    show_hidden,      \* DirectoryNavigation.show_hidden
    sort_display,     \* DirectoryNavigation.sort_display
    allow_multiple,   \* DirectoryNavigation.allow_multiple
    selected_paths,   \* DirectoryNavigation.selected_paths
    workers,          \* the _load workers that have not finished, oldest first
    inbox,            \* the OptionList messages the widget has not yet handled
    posted,           \* the messages posted by the latest step
    initialized,      \* the reactives of the widget that hold a value
    hosted,           \* the widget is the DirectoryNavigation of a FileOpen
    _allow_multiple,  \* BaseFileDialog._allow_multiple
    screen_mounted,   \* the dialog's Mount handlers have run
    queue,            \* messages of the widget the dialog has not yet handled
    border_subtitle,  \* Dialog.border_subtitle: the error shown
    current_path_display, \* the path shown by Label#current_path_display
    input_value,      \* Input.value of the dialog's filename Input
    result,           \* what the dialog was dismissed with, if it was
    _filters,         \* BaseFileDialog._filters; <<>> is None
    select_value,     \* Select.value of the dialog's FileFilter
    other_selected_paths, \* selected_paths of a second DirectoryNavigation
    shared,           \* both widgets' selected_paths are one set object
    crashed,          \* an exception left a handler: the application is shut down
    no_search         \* the directories that lack search permission

nav_vars == <<mounted, location, initial_location, entries, options,
              highlighted, file_filter, show_files, show_hidden, sort_display,
              allow_multiple, selected_paths, workers, inbox, posted,
              initialized>>

screen_vars == <<hosted, _allow_multiple, screen_mounted, queue,
                 border_subtitle, current_path_display, input_value, result,
                 _filters, select_value>>

vars == <<nav_vars, screen_vars, other_selected_paths, shared, crashed,
          no_search>>

-----------------------------------------------------------------------------
(* Bounds of the model. *)

\* Workers that may exist at once (a cancelled thread keeps running).
MaxWorkers == 2

\* OptionSelected messages that may wait in the widget's queue.
MaxInbox == 1

\* OptionHighlighted messages that may wait in the widget's queue when the
\* host or the user gives the widget its next input.
MaxHighlighted == 1

\* Messages of the widget that may wait in the dialog's queue.
MaxQueue == 2

-----------------------------------------------------------------------------
(* The filesystem the widget browses.                                      *)
(*   /            a/                                                       *)
(*   /a           b  .h  -d/                                               *)
(*   /a/-d        (a directory the user may not enumerate)                 *)

Root == <<>>

NoneIdx == -1

None == "None"

\* The code points of each name, as Python compares str values.
Codes(name) ==
    CASE name = ".." -> <<46, 46>>
      [] name = ".h" -> <<46, 104>>
      [] name = "-d" -> <<45, 100>>
      [] name = "a"  -> <<97>>
      [] name = "b"  -> <<98>>
      [] OTHER       -> <<>>

\* Path.iterdir(): the names a directory yields, in the order it yields them.
Listing(d) ==
    CASE d = Root    -> <<"a">>
      [] d = <<"a">> -> <<"b", ".h", "-d">>
      [] OTHER       -> <<>>

Dirs == {Root, <<"a">>, <<"a", "-d">>}

Files == {<<"a", "b">>, <<"a", ".h">>}

\* Directories whose enumeration raises PermissionError.
Unreadable == {<<"a", "-d">>}

\* Paths a host may hold that are no directory by the time they are
\* scanned: iterdir() raises FileNotFoundError for them.
Stale == {<<"x">>}

\* Path.parent
Parent(path) == IF path = Root THEN Root ELSE SubSeq(path, 1, Len(path) - 1)

\* Path.name
PName(path) == IF path = Root THEN "" ELSE path[Len(path)]

\* Path.resolve(): ".." components are folded into the path before them.
RECURSIVE Resolve(_)
Resolve(path) ==
    IF path = Root THEN Root
    ELSE LET head == Resolve(Parent(path))
         IN  IF PName(path) = ".." THEN Parent(head)
             ELSE Append(head, PName(path))

\* "No path": the value None where the code holds an optional Path.
NoPath == <<None>>

\* The file the operating system reaches when it walks `path` a name at a
\* time, as stat() does: ".." is looked up in the directory reached so far,
\* which has to exist and to grant search permission.  NoPath when the walk
\* fails.
RECURSIVE Lookup(_)
Lookup(path) ==
    IF path = Root THEN Root
    ELSE LET head == Lookup(Parent(path))
         IN  IF head \notin Dirs \/ head \in no_search THEN NoPath
             ELSE IF PName(path) = ".." THEN Parent(head)
             ELSE IF Append(head, PName(path)) \in Dirs \cup Files
                  THEN Append(head, PName(path))
                  ELSE NoPath

\* safe_tests.is_dir / safe_tests.is_file: Path.is_dir() / Path.is_file(),
\* with False where stat() raises PermissionError.
is_dir(path) == Lookup(path) \in Dirs

is_file(path) == Lookup(path) \in Files

\* The file filters a host may install; None is "no filter".
FilterB == "FilterB"

Filters == {None, FilterB}

\* A filter that accepts every path, as the "All" entry of a dialog's
\* filters does.
FilterAny == "FilterAny"

\* file_filter(path) for a filter that is set.
FilterAccepts(f, path) == f = FilterAny \/ (f = FilterB /\ PName(path) = "b")

\* filters=None of BaseFileDialog.__init__.
NoFilters == <<>>

\* The Filters collections a host may make a dialog with: ordered, and
\* indexable by integer position.
FilterCollections == {<<FilterAny, FilterB>>, <<FilterB, FilterAny>>}

\* Filters.__getitem__: the predicate at a 0-based position.
Filters_getitem(filters, index) == filters[index + 1]

\* Select.BLANK, the value of a Select with nothing chosen; it is no int.
BLANK == -1

\* The working directory when the module is imported: the default value of
\* the reactive _location.
Cwd == <<"a">>

\* Path.absolute(): a relative path, written with "." as its first name, is
\* joined to the working directory; its names are not folded.
absolute(path) ==
    IF path # <<>> /\ path[1] = "." THEN Cwd \o Tail(path) ELSE path

\* The paths a host assigns to nav.location: the directories, and "." .
LocationInputs == Dirs \cup {<<".">>}

-----------------------------------------------------------------------------
(* The widget as one record, so that a method is an operator from the      *)
(* widget before the call to the widget after it.                          *)

Self ==
    [mounted |-> mounted, location |-> location,
     initial_location |-> initial_location, entries |-> entries,
     options |-> options, highlighted |-> highlighted,
     file_filter |-> file_filter, show_files |-> show_files,
     show_hidden |-> show_hidden, sort_display |-> sort_display,
     allow_multiple |-> allow_multiple, selected_paths |-> selected_paths,
     workers |-> workers, inbox |-> inbox, posted |-> posted,
     initialized |-> initialized,
     other_selected_paths |-> other_selected_paths, shared |-> shared,
     crashed |-> crashed]

\* The widget at the start of a step: nothing posted by this step yet.
Begin == [Self EXCEPT !.posted = <<>>]

\* An exception left _load (the worker is in the ERROR state and, as it was
\* made with exit_on_error=True, the application is shut down) or left a
\* handler or watcher on the UI thread.
Crashed == crashed \/ \E i \in 1..Len(workers) : workers[i].phase = "error"

\* The messages of the OptionList in the widget's queue; each carries the
\* location of its option.
OptionSelected(option_location) ==
    [type |-> "OptionSelected", option |-> option_location]

OptionHighlighted(option_location) ==
    [type |-> "OptionHighlighted", option |-> option_location]

\* The OptionHighlighted messages of queue `q`.
Highlights(q) ==
    Len(SelectSeq(q, LAMBDA m : m.type = "OptionHighlighted"))

\* The result of a dialog that has not been dismissed.
NotDismissed == [kind |-> "open", paths |-> <<>>]

\* Screen.dismiss was called: the dialog is gone, and its widgets with it.
Dismissed == result.kind # "open"

\* The messages a step posted bubble to the dialog that hosts the widget,
\* which has a handler for Changed, PermissionError and Selected.
Bubble(q, msgs) ==
    IF hosted
    THEN q \o SelectSeq(msgs, LAMBDA m : m.type \in {"Changed",
                                                     "PermissionError",
                                                     "Selected"})
    ELSE q

\* The step ends with the widget as `s`; a step that would need more
\* workers than the model holds is not taken, and no step is taken once the
\* application has been shut down or the dialog dismissed.
Apply(s) ==
    /\ ~Crashed
    /\ ~Dismissed
    /\ Len(s.workers) <= MaxWorkers
    /\ mounted' = s.mounted
    /\ location' = s.location
    /\ initial_location' = s.initial_location
    /\ entries' = s.entries
    /\ options' = s.options
    /\ highlighted' = s.highlighted
    /\ file_filter' = s.file_filter
    /\ show_files' = s.show_files
    /\ show_hidden' = s.show_hidden
    /\ sort_display' = s.sort_display
    /\ allow_multiple' = s.allow_multiple
    /\ selected_paths' = s.selected_paths
    /\ workers' = s.workers
    /\ inbox' = s.inbox
    /\ posted' = s.posted
    /\ initialized' = s.initialized
    /\ other_selected_paths' = s.other_selected_paths
    /\ shared' = s.shared
    /\ crashed' = s.crashed
    /\ UNCHANGED <<hosted, _allow_multiple, _filters, no_search>>

\* A step of the widget: its messages join the dialog's queue, and the
\* dialog's own fields are left alone.
Commit(s) ==
    /\ Apply(s)
    /\ queue' = Bubble(queue, s.posted)
    /\ Len(queue') <= MaxQueue
    /\ UNCHANGED <<screen_mounted, border_subtitle, current_path_display,
                   input_value, result, select_value>>

\* An input of the host or of the user to the widget, which ends with the
\* widget as `s`: the model gives the widget no input while MaxHighlighted
\* OptionHighlighted messages wait.  The widget's handlers and the worker
\* threads take their steps whatever waits.
Input(s) == Highlights(inbox) < MaxHighlighted /\ Commit(s)

\* self.post_message(message)
post_message(self, type, path) ==
    [self EXCEPT !.posted = Append(@, [type |-> type, path |-> path])]

-----------------------------------------------------------------------------
(* DirectoryEntry and the display projection. *)

\* Path.stat() raises PermissionError: the path lies beneath a directory
\* that lacks search permission.
stat_denied(path) ==
    \E d \in no_search :
        Len(path) > Len(d) /\ SubSeq(path, 1, Len(d)) = d

\* DirectoryEntry(location, styles, selected): the row is rendered when it
\* is made, and _size and _mtime catch FileNotFoundError only.
DirectoryEntry(path, selected) ==
    IF stat_denied(path) THEN [raises |-> "PermissionError"]
    ELSE [location |-> path, selected |-> selected,
          marker |-> selected /\ ~is_dir(path)]

\* DirectoryEntry.set_selected_state: _selected changes, the prompt rendered
\* is left as it is.
set_selected_state(row, selected) ==
    IF row.selected # selected THEN [row EXCEPT !.selected = selected] ELSE row

\* The selection marker a row renders.
selection_marker(row) == row.marker

\* DirectoryNavigation.is_root
is_root(self) == self.location = Parent(self.location)

\* DirectoryNavigation.is_hidden
is_hidden(path) ==
    /\ Codes(PName(path)) # <<>>
    /\ Codes(PName(path))[1] = 46
    /\ PName(path) # ".."

\* DirectoryNavigation.hide: True when the filter rejects a file; the method
\* then ends without a return statement, and None is falsy.
hide(self, path) ==
    IF self.file_filter # None /\ is_file(path)
    THEN IF ~FilterAccepts(self.file_filter, path) THEN TRUE ELSE FALSE
    ELSE FALSE

\* str < str
RECURSIVE StrLess(_, _)
StrLess(s, t) ==
    IF t = <<>> THEN FALSE
    ELSE IF s = <<>> THEN TRUE
    ELSE IF s[1] # t[1] THEN s[1] < t[1]
    ELSE StrLess(Tail(s), Tail(t))

\* A sort key that lost its "not": files would sort before directories.
SortKey_FilesFirst(row) ==
    <<IF is_dir(row.location) THEN 1 ELSE 0, Codes(PName(row.location))>>

\* The key of _sort: (not is_dir(entry.location), entry.location.name)
SortKey(row) ==
    <<IF is_dir(row.location) THEN 0 ELSE 1, Codes(PName(row.location))>>

KeyLess(k1, k2) ==
    \/ k1[1] < k2[1]
    \/ k1[1] = k2[1] /\ StrLess(k1[2], k2[2])

\* sorted(rows, key=SortKey): a stable sort.
RECURSIVE Sorted(_)
Sorted(rows) ==
    IF rows = <<>> THEN <<>>
    ELSE LET r   == rows[Len(rows)]
             pre == Sorted(SubSeq(rows, 1, Len(rows) - 1))
             n   == Cardinality({i \in 1..Len(pre) :
                                    ~KeyLess(SortKey(r), SortKey(pre[i]))})
         IN  SubSeq(pre, 1, n) \o <<r>> \o SubSeq(pre, n + 1, Len(pre))

\* DirectoryNavigation._sort
_sort(self, rows) == IF self.sort_display THEN Sorted(rows) ELSE rows

\* The loop of _repopulate_display over self._entries.
RECURSIVE DisplayEntries(_, _)
DisplayEntries(self, ents) ==
    IF ents = <<>> THEN <<>>
    ELSE LET path_location == Head(ents)
             is_currently_selected ==
                 path_location \in self.selected_paths /\ self.allow_multiple
             rest == DisplayEntries(self, Tail(ents))
         IN  IF ~hide(self, path_location)
             THEN <<DirectoryEntry(path_location, is_currently_selected)>> \o rest
             ELSE rest

\* The making of a row of options_to_add raises.
ConstructionRaises(self) ==
    \/ ~is_root(self) /\ stat_denied(Append(self.location, ".."))
    \/ \E i \in 1..Len(self.entries) :
           ~hide(self, self.entries[i]) /\ stat_denied(self.entries[i])

\* options_to_add, as handed to add_options.
OptionsToAdd(self) ==
    LET parent_dir_entry ==
            IF ~is_root(self)
            THEN <<DirectoryEntry(Append(self.location, ".."), FALSE)>>
            ELSE <<>>
    IN  _sort(self, parent_dir_entry \o DisplayEntries(self, self.entries))

(* A reactive declared with var(...) has init=True: it is given its        *)
(* default, and its watcher is called, when it is first read or assigned   *)
(* or, failing that, once the widget has been mounted                      *)
(* (Reactive._initialize_reactive).                                        *)
RECURSIVE _initialize_reactive(_, _)

\* OptionList.validate_highlighted
validate_highlighted(self, h) ==
    IF h = NoneIdx \/ Len(self.options) = 0 THEN NoneIdx
    ELSE IF h < 0 THEN 0
    ELSE IF h >= Len(self.options) THEN Len(self.options) - 1
    ELSE h

\* self.highlighted = value, with OptionList.watch_highlighted: a value that
\* differs and is not None posts OptionHighlighted for its option.
set_highlighted(self, value) ==
    IF value # self.highlighted
    THEN [self EXCEPT
             !.highlighted = value,
             !.inbox = IF value # NoneIdx
                       THEN Append(@, OptionHighlighted(
                                          self.options[value + 1].location))
                       ELSE @]
    ELSE self

\* DirectoryNavigation._settle_highlight
_settle_highlight(self) ==
    IF self.highlighted = NoneIdx
    THEN set_highlighted(self, validate_highlighted(self, 0))
    ELSE self

\* OptionList.clear_options
clear_options(self) == [self EXCEPT !.options = <<>>, !.highlighted = NoneIdx]

\* An exception leaves _repopulate_display after clear_options.
raise_in_rebuild(self) == [clear_options(self) EXCEPT !.crashed = TRUE]

\* The index of the first row at `path`, or -1.
FindRow(rows, path) ==
    LET hits == {i \in 1..Len(rows) : rows[i].location = path}
    IN  IF hits = {} THEN -1
        ELSE (CHOOSE i \in hits : \A j \in hits : i <= j) - 1

\* A rebuild that does not look for the row highlighted before it.
RestoreHighlight_FirstRow(rows, current_highlighted_location) ==
    IF Len(rows) > 0 THEN 0 ELSE NoneIdx

\* The "Restore highlight" part of _repopulate_display.
RestoreHighlight(rows, current_highlighted_location) ==
    IF current_highlighted_location # NoPath
    THEN IF FindRow(rows, current_highlighted_location) # -1
         THEN FindRow(rows, current_highlighted_location)
         ELSE IF Len(rows) > 0 THEN 0 ELSE NoneIdx
    ELSE IF Len(rows) > 0 THEN 0 ELSE NoneIdx

\* A rebuild without its "Restore highlight" part: clear_options leaves no
\* highlight and _settle_highlight puts it on the first row.
_repopulate_display_SettleOnly(self) ==
    IF ConstructionRaises(self) THEN raise_in_rebuild(self)
    ELSE _settle_highlight(
             [clear_options(self) EXCEPT !.options = OptionsToAdd(self)])

\* A rebuild that ends after add_options: clear_options has left no
\* highlight and nothing puts one back.
_repopulate_display_NoHighlight(self) ==
    IF ConstructionRaises(self) THEN raise_in_rebuild(self)
    ELSE [clear_options(self) EXCEPT !.options = OptionsToAdd(self)]

\* self.add_options(self._sort(options_to_add)): the rows are appended to
\* the rows the list holds.
add_options(self) == [self EXCEPT !.options = @ \o OptionsToAdd(self)]

\* The end of _repopulate_display: the "Restore highlight" part and
\* _settle_highlight.
restore_highlight(self, current_highlighted_location) ==
    _settle_highlight(
        set_highlighted(self, RestoreHighlight(self.options,
                                               current_highlighted_location)))

\* DirectoryNavigation._repopulate_display.  _sort reads self.sort_display
\* once the rows have been made: when that is the first read of it, its
\* watcher rebuilds the display there, and add_options then appends the
\* rows of this call to the rows of that one.
_repopulate_display(self) ==
    IF ConstructionRaises(self) THEN raise_in_rebuild(self)
    ELSE restore_highlight(
             add_options(_initialize_reactive(clear_options(self),
                                              "sort_display")),
             IF self.highlighted # NoneIdx /\ Len(self.options) > 0
             THEN self.options[self.highlighted + 1].location
             ELSE NoPath)


-----------------------------------------------------------------------------
(* The exclusive threaded worker of _load. *)

\* A worker whose thread has not yet run the first line of _load.
NewWorker ==
    [phase |-> "pending", dir |-> NoPath, todo |-> <<>>,
     loaded_paths |-> <<>>, cancelled |-> FALSE]

\* A cancelled worker inside the loop returns at the end of its turn
\* whatever it has read, so the model forgets what it has read.
Doomed ==
    [phase |-> "scan", dir |-> NoPath, todo |-> <<NoPath>>,
     loaded_paths |-> <<>>, cancelled |-> TRUE]

\* Worker.cancel: the worker is flagged cancelled; its thread is not stopped.
cancel(w) ==
    IF w.phase = "scan" /\ w.todo # <<>> THEN Doomed
    ELSE [w EXCEPT !.cancelled = TRUE]

\* A worker started without exclusive=True cancels nothing.
cancel_group_NotExclusive(ws) == ws

\* WorkerManager.cancel_group, run for an exclusive worker: every worker of
\* the widget is cancelled.
cancel_group(ws) == [i \in 1..Len(ws) |-> cancel(ws[i])]

\* Calling self._load(): @work(exclusive=True, thread=True)
_load(self) == [self EXCEPT !.workers = Append(cancel_group(@), NewWorker)]

\* The sequence `ws` without its i-th element.
Without(ws, i) == SubSeq(ws, 1, i - 1) \o SubSeq(ws, i + 1, Len(ws))

\* The paths iterdir() yields for directory d.
iterdir(d) == [i \in 1..Len(Listing(d)) |-> Append(d, Listing(d)[i])]

-----------------------------------------------------------------------------
(* Watchers and setters.  A reactive calls its watcher, synchronously,     *)
(* when the value assigned differs from the value held.                    *)

\* self.selected_paths.clear(): the set object is emptied in place, for
\* every widget that holds it.
clear(self) ==
    [self EXCEPT !.selected_paths = {},
                 !.other_selected_paths = IF self.shared THEN {} ELSE @]

\* A location watcher that keeps the selection.
_watch__location_KeepSelection(self) ==
    IF ~self.mounted THEN self
    ELSE _load(post_message(self, "Changed", NoPath))

\* The end of _watch__location, from its test of self.allow_multiple on.
clear_and_load(self) ==
    IF self.crashed THEN self
    ELSE _load(IF self.allow_multiple THEN clear(self) ELSE self)

\* DirectoryNavigation._watch__location; self.allow_multiple is read
\* between the posting of Changed and the call of _load.
_watch__location(self) ==
    IF ~self.mounted THEN self
    ELSE clear_and_load(
             _initialize_reactive(post_message(self, "Changed", NoPath),
                                  "allow_multiple"))

\* A reactive that calls its watcher on every assignment.
set__location_AlwaysUpdate(self, value) ==
    _watch__location([self EXCEPT !.location = value])

\* self._location = value
set__location(self, value) ==
    IF value # self.location
    THEN _watch__location([self EXCEPT !.location = value])
    ELSE self

\* The setter of DirectoryNavigation.location
set_location(self, new_location) ==
    IF self.mounted
    THEN set__location(self, absolute(new_location))
    ELSE [self EXCEPT !.initial_location = absolute(new_location)]

\* DirectoryNavigation.on_mount
on_mount(self) ==
    LET s1 == [self EXCEPT !.mounted = TRUE]
    IN  set_location(s1, s1.initial_location)

\* DirectoryNavigation.action_navigate_up
action_navigate_up(self) == set__location(self, Parent(self.location))

\* DirectoryNavigation._watch_selected_paths
_watch_selected_paths(self) ==
    IF self.mounted THEN _repopulate_display(self) ELSE self

\* self.selected_paths = value: a value that differs is stored, and the
\* widget then holds the set object assigned, which no other widget holds.
set_selected_paths(self, value) ==
    IF value # self.selected_paths
    THEN _watch_selected_paths(
             [self EXCEPT !.selected_paths = value, !.shared = FALSE])
    ELSE self

\* An allow_multiple watcher that keeps the selection.
_watch_allow_multiple_KeepSelection(self) ==
    IF self.mounted THEN _repopulate_display(self) ELSE self

\* DirectoryNavigation._watch_allow_multiple
_watch_allow_multiple(self) ==
    LET s1 == IF ~self.allow_multiple /\ self.selected_paths # {}
              THEN clear(self)
              ELSE self
    IN  IF s1.mounted THEN _repopulate_display(s1) ELSE s1

\* The watcher of the reactive `name`: _watch_file_filter,
\* _watch_show_files, _watch_show_hidden, _watch_sort_display and
\* _watch_allow_multiple.
_watch(self, name) ==
    CASE name = "file_filter"    -> _repopulate_display(self)
      [] name = "show_files"     -> _load(self)
      [] name = "show_hidden"    -> _repopulate_display(self)
      [] name = "sort_display"   -> _repopulate_display(self)
      [] name = "allow_multiple" -> _watch_allow_multiple(self)

\* Reactive._initialize_reactive(obj, name), for the reactives of the
\* widget declared with var(...).
_initialize_reactive(self, name) ==
    IF name \in self.initialized THEN self
    ELSE _watch([self EXCEPT !.initialized = @ \cup {name}], name)

\* Reactive._set, once the reactive holds a value: a value that differs is
\* stored and the watcher is called.
_set(self, name, value) ==
    IF ~self.crashed /\ value # self[name]
    THEN _watch([self EXCEPT ![name] = value], name)
    ELSE self

\* self.allow_multiple = value
set_allow_multiple(self, value) ==
    _set(_initialize_reactive(self, "allow_multiple"), "allow_multiple", value)

\* self.show_hidden = value
set_show_hidden(self, value) ==
    _set(_initialize_reactive(self, "show_hidden"), "show_hidden", value)

\* DirectoryNavigation.toggle_hidden
toggle_hidden(self) == set_show_hidden(self, ~self.show_hidden)

\* self.sort_display = value
set_sort_display(self, value) ==
    _set(_initialize_reactive(self, "sort_display"), "sort_display", value)

\* A file_filter watcher that reloads instead of rebuilding.
set_file_filter_Reload(self, value) ==
    IF value # self.file_filter
    THEN _load([self EXCEPT !.file_filter = value])
    ELSE self

\* self.file_filter = value
set_file_filter(self, value) ==
    _set(_initialize_reactive(self, "file_filter"), "file_filter", value)

\* self.show_files = value
set_show_files(self, value) ==
    _set(_initialize_reactive(self, "show_files"), "show_files", value)

\* Reactive._initialize_object, for the reactives from the k-th on in the
\* order of declaration: each that holds no value yet is given its default
\* and calls its watcher.
RECURSIVE _initialize_object(_, _)
_initialize_object(self, k) ==
    LET reactives == <<"file_filter", "show_files", "show_hidden",
                       "sort_display", "allow_multiple">>
    IN  IF k > Len(reactives) \/ self.crashed THEN self
        ELSE _initialize_object(_initialize_reactive(self, reactives[k]),
                                k + 1)

\* Widget._post_mount, which follows the handling of Mount.
_post_mount(self) == _initialize_object(self, 1)

\* A toggle without the is_file test: any highlighted row is toggled.
action_toggle_selection_AnyRow(self) ==
    IF ~self.allow_multiple THEN self
    ELSE IF self.highlighted = NoneIdx THEN self
    ELSE LET path_to_toggle == self.options[self.highlighted + 1].location
         IN  set_selected_paths(self,
                 IF path_to_toggle \in self.selected_paths
                 THEN self.selected_paths \ {path_to_toggle}
                 ELSE self.selected_paths \cup {path_to_toggle})

\* A toggle that adds to, or removes from, the set object it holds.
action_toggle_selection_InPlace(self) ==
    IF ~self.allow_multiple THEN self
    ELSE IF self.highlighted = NoneIdx THEN self
    ELSE LET path_to_toggle == self.options[self.highlighted + 1].location
             new_selected_paths ==
                 IF path_to_toggle \in self.selected_paths
                 THEN self.selected_paths \ {path_to_toggle}
                 ELSE self.selected_paths \cup {path_to_toggle}
         IN  IF is_file(path_to_toggle)
             THEN _watch_selected_paths(
                      [self EXCEPT
                          !.selected_paths = new_selected_paths,
                          !.other_selected_paths =
                              IF self.shared THEN new_selected_paths ELSE @])
             ELSE self

\* DirectoryNavigation.action_toggle_selection
action_toggle_selection(self) ==
    IF ~self.allow_multiple THEN self
    ELSE IF self.highlighted = NoneIdx THEN self
    ELSE LET path_to_toggle == self.options[self.highlighted + 1].location
             new_selected_paths ==
                 IF path_to_toggle \in self.selected_paths
                 THEN self.selected_paths \ {path_to_toggle}
                 ELSE self.selected_paths \cup {path_to_toggle}
         IN  IF is_file(path_to_toggle)
             THEN set_selected_paths(self, new_selected_paths)
             ELSE self

\* A handler without the is_dir test: every activation is taken for a file.
_on_option_list_option_selected_NoDirTest(self, option_location) ==
    post_message(self, "Selected", Resolve(option_location))

\* DirectoryNavigation._on_option_list_option_selected, for the
\* OptionSelected message whose option is at `option_location`.
_on_option_list_option_selected(self, option_location) ==
    LET selected_location == Resolve(option_location)
    IN  IF is_dir(selected_location)
        THEN set_location(self, selected_location)
        ELSE IF self.allow_multiple
        THEN LET toggled == action_toggle_selection(self)
             IN  IF toggled.crashed THEN toggled
                 ELSE post_message(toggled, "Selected", selected_location)
        ELSE post_message(self, "Selected", selected_location)

\* DirectoryNavigation._on_option_list_option_highlighted, for the
\* OptionHighlighted message whose option is at `option_location`.
_on_option_list_option_highlighted(self, option_location) ==
    post_message(self, "Highlighted", option_location)

\* process_loaded_paths, the closure _load hands to call_from_thread.
process_loaded_paths(self, loaded_paths) ==
    _repopulate_display([self EXCEPT !.entries = loaded_paths])

-----------------------------------------------------------------------------
(* The FileOpen dialog that hosts the widget.  A handler of the dialog is  *)
(* an operator from the dialog before the call to the dialog after it;     *)
(* the dialog's DirectoryNavigation is its field dir_nav.                  *)

ERROR_PERMISSION_ERROR == "Permission error"

ERROR_A_FILE_MUST_BE_CHOSEN == "A file must be chosen"

ERROR_NO_FILES_SELECTED == "No files selected"

ERROR_SELECTION_IS_NOT_A_FILE == "Selection must be a file"

ERROR_INPUT_NOT_FOUND == "Internal error: Filename input not found."

ERROR_A_FILE_MUST_EXIST == "The file must exist"

\* FileOpen(must_exist=True), the default.
_must_exist == TRUE

\* The id the filename Input is made with: _input_bar yields
\* Input(Path(self._default_file or "").name), which passes no id.
filename_input_id == None

\* The id the FileFilter is made with: _input_bar yields
\* FileFilter(self._filters.selections, prompt=..., value=0,
\* allow_blank=False), which passes no id.
file_filter_select_id == None

\* self.query_one("#" + id, ...) raises NoMatches: no widget that
\* compose() and _input_bar() yield has the id.
NoMatches(id) ==
    id \notin {"current_path_display", "select", "cancel", "fsp-content-area"}
                  \cup (IF filename_input_id = None THEN {}
                        ELSE {filename_input_id})
                  \cup (IF file_filter_select_id = None THEN {}
                        ELSE {file_filter_select_id})

\* The names a user types into the filename Input.
InputValues == {"", "b", "-d", "zz"}

\* Path.is_file() and Path.exists() once the files `gone` have been removed.
Path_is_file(path, gone) == path \in Files \ gone

Path_exists(path, gone) == path \in (Dirs \cup Files) \ gone

Path_is_dir(path) == path \in Dirs

\* list(a_set): the members, each once, in an order Python chooses.
Lists(set) ==
    {l \in [1..Cardinality(set) -> set] :
        \A i, j \in 1..Cardinality(set) : l[i] = l[j] => i = j}

\* The dialog at the start of a handler.
Screen ==
    [dir_nav |-> Begin, screen_mounted |-> screen_mounted, queue |-> queue,
     border_subtitle |-> border_subtitle,
     current_path_display |-> current_path_display,
     input_value |-> input_value, result |-> result,
     select_value |-> select_value]

\* The handler ends with the dialog as `d`.
CommitScreen(d) ==
    /\ hosted
    /\ Apply(d.dir_nav)
    /\ queue' = Bubble(d.queue, d.dir_nav.posted)
    /\ Len(queue') <= MaxQueue
    /\ screen_mounted' = d.screen_mounted
    /\ border_subtitle' = d.border_subtitle
    /\ current_path_display' = d.current_path_display
    /\ input_value' = d.input_value
    /\ result' = d.result
    /\ select_value' = d.select_value

\* FileSystemPickerScreen._set_error
_set_error(d, message) == [d EXCEPT !.border_subtitle = message]

\* Screen.dismiss(result)
dismiss(d, kind, paths) ==
    [d EXCEPT !.result = [kind |-> kind, paths |-> paths]]

\* FileSystemPickerScreen.on_mount
screen_on_mount(d) ==
    [d EXCEPT !.current_path_display = d.dir_nav.location]

\* dir_nav.allow_multiple = self._allow_multiple, the last line of
\* _configure_navigation_on_mount, not reached when a line before it raised.
configure_allow_multiple(self) ==
    IF self.crashed THEN self ELSE set_allow_multiple(self, _allow_multiple)

\* BaseFileDialog._configure_navigation_on_mount
_configure_navigation_on_mount(d) ==
    [d EXCEPT
        !.dir_nav = configure_allow_multiple(
                        IF _filters # NoFilters
                        THEN set_file_filter(@, Filters_getitem(_filters, 0))
                        ELSE @)]

\* The dialog handles Mount: the handler BaseFileDialog registers with
\* @on(Mount) is called before on_mount of FileSystemPickerScreen, which is
\* not called when that handler raises.  The handler is registered twice;
\* its second call assigns the values the reactives hold and changes nothing.
_on_Mount(d) ==
    LET configured == _configure_navigation_on_mount(d)
    IN  IF configured.dir_nav.crashed THEN configured
        ELSE [screen_on_mount(configured) EXCEPT !.screen_mounted = TRUE]

\* BaseFileDialog._change_filter
_change_filter(d, value) ==
    [d EXCEPT !.dir_nav =
        IF _filters # NoFilters /\ value # BLANK
        THEN set_file_filter(@, Filters_getitem(_filters, value))
        ELSE set_file_filter(@, None)]

\* @on(Select.Changed, "#file_filter_select"): the handler runs for a
\* message whose control has that id.
on_Select_Changed(d, value) ==
    IF file_filter_select_id = "file_filter_select"
    THEN _change_filter(d, value)
    ELSE d

\* FileSystemPickerScreen._on_directory_changed and _clear_error, the two
\* handlers of DirectoryNavigation.Changed.
_on_directory_changed(d) ==
    [_set_error(d, <<"">>) EXCEPT
        !.current_path_display = d.dir_nav.location]

\* FileSystemPickerScreen._show_permission_error
_show_permission_error(d) == _set_error(d, <<ERROR_PERMISSION_ERROR>>)

\* BaseFileDialog._select_file
_select_file(d, path) ==
    IF ~_allow_multiple /\ ~NoMatches("filename_input")
    THEN [d EXCEPT !.input_value = PName(path)]
    ELSE d

\* The index of the first candidate that is not in `good`, or 0.
FirstNotIn(candidates, good) ==
    LET bad == {i \in 1..Len(candidates) : candidates[i] \notin good}
    IN  IF bad = {} THEN 0
        ELSE CHOOSE i \in bad : \A j \in bad : i <= j

\* BaseFileDialog._validate_and_return_single_file: [ok, d]
BaseFileDialog_validate_and_return_single_file(d, candidate, gone) ==
    IF ~Path_is_file(candidate, gone)
    THEN [ok |-> FALSE,
          d |-> _set_error(d, <<ERROR_SELECTION_IS_NOT_A_FILE,
                                PName(candidate)>>)]
    ELSE [ok |-> TRUE, d |-> d]

\* FileOpen._validate_and_return_single_file: [ok, d]
_validate_and_return_single_file(d, candidate, gone) ==
    LET base == BaseFileDialog_validate_and_return_single_file(
                    d, candidate, gone)
    IN  IF ~base.ok THEN base
        ELSE IF _must_exist /\ ~Path_exists(candidate, gone)
        THEN [ok |-> FALSE, d |-> _set_error(d, <<ERROR_A_FILE_MUST_EXIST>>)]
        ELSE [ok |-> TRUE, d |-> d]

\* BaseFileDialog._validate_and_return_multiple_files: [ok, d]
BaseFileDialog_validate_and_return_multiple_files(d, candidates, gone) ==
    LET i == FirstNotIn(candidates, Files \ gone)
    IN  IF i # 0
        THEN [ok |-> FALSE,
              d |-> _set_error(d, <<ERROR_SELECTION_IS_NOT_A_FILE,
                                    PName(candidates[i])>>)]
        ELSE [ok |-> TRUE, d |-> d]

\* A multiple-file validation that accepts every candidate.
_validate_and_return_multiple_files_AcceptAll(d, candidates, gone) ==
    [ok |-> TRUE, d |-> d]

\* FileOpen._validate_and_return_multiple_files: [ok, d]
_validate_and_return_multiple_files(d, candidates, gone) ==
    LET base == BaseFileDialog_validate_and_return_multiple_files(
                    d, candidates, gone)
        i == FirstNotIn(candidates, (Dirs \cup Files) \ gone)
    IN  IF ~base.ok THEN base
        ELSE IF _must_exist /\ i # 0
        THEN [ok |-> FALSE,
              d |-> _set_error(d, <<ERROR_A_FILE_MUST_EXIST,
                                    PName(candidates[i])>>)]
        ELSE [ok |-> TRUE, d |-> d]

\* BaseFileDialog._process_confirmation.  `selected_files` is
\* list(dir_nav.selected_paths) and `gone` is the set of files removed
\* since they were listed.  An input that starts with "~" is not typed.
_process_confirmation(d, selected_files, gone) ==
    IF _allow_multiple
    THEN IF selected_files = <<>>
         THEN _set_error(d, <<ERROR_NO_FILES_SELECTED>>)
         ELSE LET v == _validate_and_return_multiple_files(
                           d, selected_files, gone)
              IN  IF v.ok THEN dismiss(v.d, "list", selected_files)
                  ELSE v.d
    ELSE IF NoMatches("filename_input")
    THEN _set_error(d, <<ERROR_INPUT_NOT_FOUND>>)
    ELSE IF d.input_value = ""
    THEN _set_error(d, <<ERROR_A_FILE_MUST_BE_CHOSEN>>)
    ELSE LET chosen == Resolve(Append(d.dir_nav.location, d.input_value))
         IN  IF Path_is_dir(chosen)
             THEN [d EXCEPT !.dir_nav = set_location(@, chosen),
                            !.input_value = ""]
             ELSE LET v == _validate_and_return_single_file(d, chosen, gone)
                  IN  IF v.ok THEN dismiss(v.d, "path", <<chosen>>)
                      ELSE v.d

\* FileSystemPickerScreen._cancel, and the escape binding.
_cancel(d) == dismiss(d, "none", <<>>)

-----------------------------------------------------------------------------
(* The state after construction, and the steps. *)

\* DirectoryNavigation.__init__(location), for any starting location.
Init ==
    /\ mounted = FALSE
    /\ location = Cwd
    /\ initial_location \in Dirs
    /\ entries = <<>>
    /\ options = <<>>
    /\ highlighted = NoneIdx
    /\ file_filter = None
    /\ show_files = TRUE
    /\ show_hidden = FALSE
    /\ sort_display = TRUE
    /\ allow_multiple = FALSE
    /\ selected_paths = {}
    /\ workers = <<>>
    /\ inbox = <<>>
    /\ posted = <<>>
    /\ initialized = {}
    /\ hosted = FALSE
    /\ _allow_multiple = FALSE
    /\ screen_mounted = FALSE
    /\ queue = <<>>
    /\ border_subtitle = <<"">>
    /\ current_path_display = NoPath
    /\ input_value = ""
    /\ result = NotDismissed
    /\ _filters = NoFilters
    /\ select_value = 0
    /\ other_selected_paths = {}
    /\ shared = FALSE
    /\ crashed = FALSE
    /\ no_search \in SUBSET Unreadable

\* The widget is mounted: on_mount, then the first call of the watchers.
Mount == ~mounted /\ Commit(_post_mount(on_mount(Begin)))

\* The host assigns nav.location.
SetLocation == \E p \in LocationInputs : Input(set_location(Begin, p))

\* The host assigns nav.location a path that is no directory.
SetLocationStale == \E p \in Stale : Input(set_location(Begin, p))

\* Backspace, or a call of action_navigate_up.
NavigateUp == Input(action_navigate_up(Begin))

(* The watchers of show_hidden, sort_display, file_filter and show_files    *)
(* rebuild or reload without a test of _mounted, which needs the running   *)
(* application: the host changes these settings once the widget is mounted.*)

\* The host calls toggle_hidden().
ToggleHidden == mounted /\ Input(toggle_hidden(Begin))

\* The host assigns nav.sort_display.
SetSortDisplay ==
    mounted /\ \E b \in BOOLEAN : Input(set_sort_display(Begin, b))

\* The host assigns nav.file_filter.
SetFileFilter ==
    mounted /\ \E f \in Filters : Input(set_file_filter(Begin, f))

\* The host assigns nav.show_files.
SetShowFiles ==
    mounted /\ \E b \in BOOLEAN : Input(set_show_files(Begin, b))

\* The host assigns nav.allow_multiple, before or after the mount.
SetAllowMultiple == \E b \in BOOLEAN : Input(set_allow_multiple(Begin, b))

\* The user moves the highlight to a row.
Highlight ==
    /\ mounted
    /\ \E i \in 0..(Len(options) - 1) : Input(set_highlighted(Begin, i))

\* The host calls set_selected_state on a row of the list.
SetSelectedState ==
    /\ mounted
    /\ \E i \in 1..Len(options) :
          \E selected \in BOOLEAN :
              Input([Begin EXCEPT
                         !.options[i] = set_selected_state(@, selected)])

\* Space: the binding of action_toggle_selection.
ToggleSelection == mounted /\ Input(action_toggle_selection(Begin))

\* Enter on the highlighted row, or a click on a row: the row is
\* highlighted and an OptionSelected message for it is queued.
SelectOption ==
    /\ mounted
    /\ Len(inbox) - Highlights(inbox) < MaxInbox
    /\ \E i \in 0..(Len(options) - 1) :
          Input([set_highlighted(Begin, i) EXCEPT
                     !.inbox = Append(@, OptionSelected(
                                             options[i + 1].location))])

\* The widget handles the oldest message of its queue, an OptionSelected.
HandleOptionSelected ==
    /\ inbox # <<>>
    /\ Head(inbox).type = "OptionSelected"
    /\ Commit(_on_option_list_option_selected(
                  [Begin EXCEPT !.inbox = Tail(@)], Head(inbox).option))

\* The widget handles the oldest message of its queue, an OptionHighlighted.
HandleOptionHighlighted ==
    /\ inbox # <<>>
    /\ Head(inbox).type = "OptionHighlighted"
    /\ Commit(_on_option_list_option_highlighted(
                  [Begin EXCEPT !.inbox = Tail(@)], Head(inbox).option))

\* A worker cancelled before its thread ran is never run.
WorkerDrop ==
    \E i \in 1..Len(workers) :
        /\ workers[i].phase = "pending"
        /\ workers[i].cancelled
        /\ Commit([Begin EXCEPT !.workers = Without(@, i)])

\* _load, on the worker's thread: self._location.iterdir() is entered.
WorkerStart ==
    \E i \in 1..Len(workers) :
        /\ workers[i].phase = "pending"
        /\ Commit([Begin EXCEPT
               !.workers[i] =
                   IF location \notin Dirs
                   THEN [@ EXCEPT !.phase = "error", !.dir = location]
                   ELSE IF location \in Unreadable
                   THEN [@ EXCEPT !.phase = "denied", !.dir = location]
                   ELSE IF @.cancelled /\ iterdir(location) # <<>>
                   THEN Doomed
                   ELSE [@ EXCEPT !.phase = "scan", !.dir = location,
                                  !.todo = iterdir(location)]])

\* A loop that keeps every entry, whatever show_files is.
WorkerScan_KeepAll ==
    \E i \in 1..Len(workers) :
        /\ workers[i].phase = "scan"
        /\ workers[i].todo # <<>>
        /\ Commit([Begin EXCEPT
               !.workers =
                   IF @[i].cancelled THEN Without(@, i)
                   ELSE [@ EXCEPT ![i].todo = Tail(@),
                                  ![i].loaded_paths =
                                      Append(@, Head(workers[i].todo))]])

\* _load, on the worker's thread: one turn of the loop, which ends with the
\* test of worker.is_cancelled.
WorkerScan ==
    \E i \in 1..Len(workers) :
        /\ workers[i].phase = "scan"
        /\ workers[i].todo # <<>>
        /\ LET entry_path == Head(workers[i].todo)
               keep == is_dir(entry_path) \/ (is_file(entry_path) /\ show_files)
           IN  Commit([Begin EXCEPT
                   !.workers =
                       IF @[i].cancelled THEN Without(@, i)
                       ELSE [@ EXCEPT ![i].todo = Tail(@),
                                      ![i].loaded_paths =
                                          IF keep THEN Append(@, entry_path)
                                          ELSE @]])

\* An except clause that empties the widget's cache itself.
WorkerDenied_ClearsCache ==
    \E i \in 1..Len(workers) :
        /\ workers[i].phase = "denied"
        /\ Commit([post_message(Begin, "PermissionError", location) EXCEPT
               !.workers[i].phase = "scan", !.entries = <<>>])

\* _load, on the worker's thread: the except clause posts PermissionError
\* with the location the widget has by then.
WorkerDenied ==
    \E i \in 1..Len(workers) :
        /\ workers[i].phase = "denied"
        /\ Commit([post_message(Begin, "PermissionError", location) EXCEPT
               !.workers[i].phase = "scan"])

\* call_from_thread(process_loaded_paths), by the i-th worker: the closure
\* runs on the UI thread and the worker ends.
Deliver(i) ==
    /\ workers[i].phase = "scan"
    /\ workers[i].todo = <<>>
    /\ Commit(process_loaded_paths(
           [Begin EXCEPT !.workers = Without(@, i)],
           workers[i].loaded_paths))

WorkerDeliver == \E i \in 1..Len(workers) : Deliver(i)

\* The steps of the worker threads.
Worker ==
    \/ WorkerDrop
    \/ WorkerStart
    \/ WorkerScan
    \/ WorkerDenied
    \/ WorkerDeliver

\* FileOpen(location, allow_multiple=...) is pushed: its compose() makes the
\* widget with the dialog's location.
InitDialog ==
    /\ mounted = FALSE
    /\ location = Cwd
    /\ initial_location \in Dirs
    /\ entries = <<>>
    /\ options = <<>>
    /\ highlighted = NoneIdx
    /\ file_filter = None
    /\ show_files = TRUE
    /\ show_hidden = FALSE
    /\ sort_display = TRUE
    /\ allow_multiple = FALSE
    /\ selected_paths = {}
    /\ workers = <<>>
    /\ inbox = <<>>
    /\ posted = <<>>
    /\ initialized = {}
    /\ hosted = TRUE
    /\ _allow_multiple \in BOOLEAN
    /\ screen_mounted = FALSE
    /\ queue = <<>>
    /\ border_subtitle = <<"">>
    /\ current_path_display = NoPath
    /\ input_value = ""
    /\ result = NotDismissed
    /\ _filters = NoFilters
    /\ select_value = 0
    /\ other_selected_paths = {}
    /\ shared = FALSE
    /\ crashed = FALSE
    /\ no_search \in SUBSET Unreadable

\* Two widgets have been constructed.  self.selected_paths = set() in
\* __init__ assigns a value equal to the default of the reactive, which is
\* therefore kept: a widget holds the set object of the class until a value
\* that differs is assigned.  The second widget is either as constructed or
\* has had files selected in it.
InitTwin ==
    /\ mounted = FALSE
    /\ location = Cwd
    /\ initial_location \in Dirs
    /\ entries = <<>>
    /\ options = <<>>
    /\ highlighted = NoneIdx
    /\ file_filter = None
    /\ show_files = TRUE
    /\ show_hidden = FALSE
    /\ sort_display = TRUE
    /\ allow_multiple = FALSE
    /\ selected_paths = {}
    /\ workers = <<>>
    /\ inbox = <<>>
    /\ posted = <<>>
    /\ initialized = {}
    /\ hosted = FALSE
    /\ _allow_multiple = FALSE
    /\ screen_mounted = FALSE
    /\ queue = <<>>
    /\ border_subtitle = <<"">>
    /\ current_path_display = NoPath
    /\ input_value = ""
    /\ result = NotDismissed
    /\ _filters = NoFilters
    /\ select_value = 0
    /\ \/ shared = TRUE /\ other_selected_paths = {}
       \/ shared = FALSE /\ other_selected_paths \in (SUBSET Files) \ {{}}
    /\ crashed = FALSE
    /\ no_search \in SUBSET Unreadable

\* The dialog's Mount handlers, which run once its widgets are mounted.
ScreenMount ==
    /\ mounted
    /\ ~screen_mounted
    /\ CommitScreen(_on_Mount(Screen))

\* A dialog that handles the newest message of the widget first.
HandleMessage_NewestFirst ==
    /\ screen_mounted
    /\ queue # <<>>
    /\ LET message == queue[Len(queue)]
           d == [Screen EXCEPT !.queue = SubSeq(@, 1, Len(@) - 1)]
       IN  CommitScreen(
               CASE message.type = "Changed" -> _on_directory_changed(d)
                 [] message.type = "PermissionError" ->
                        _show_permission_error(d)
                 [] OTHER -> _select_file(d, message.path))

\* The dialog handles the oldest message of the widget.
HandleMessage ==
    /\ screen_mounted
    /\ queue # <<>>
    /\ LET message == Head(queue)
           d == [Screen EXCEPT !.queue = Tail(@)]
       IN  CommitScreen(
               CASE message.type = "Changed" -> _on_directory_changed(d)
                 [] message.type = "PermissionError" ->
                        _show_permission_error(d)
                 [] OTHER -> _select_file(d, message.path))

\* FileOpen(location, filters=..., allow_multiple=...) is pushed.
InitFilter ==
    /\ mounted = FALSE
    /\ location = Cwd
    /\ initial_location \in Dirs
    /\ entries = <<>>
    /\ options = <<>>
    /\ highlighted = NoneIdx
    /\ file_filter = None
    /\ show_files = TRUE
    /\ show_hidden = FALSE
    /\ sort_display = TRUE
    /\ allow_multiple = FALSE
    /\ selected_paths = {}
    /\ workers = <<>>
    /\ inbox = <<>>
    /\ posted = <<>>
    /\ initialized = {}
    /\ hosted = TRUE
    /\ _allow_multiple \in BOOLEAN
    /\ screen_mounted = FALSE
    /\ queue = <<>>
    /\ border_subtitle = <<"">>
    /\ current_path_display = NoPath
    /\ input_value = ""
    /\ result = NotDismissed
    /\ _filters \in FilterCollections
    /\ select_value = 0
    /\ other_selected_paths = {}
    /\ shared = FALSE
    /\ crashed = FALSE
    /\ no_search \in SUBSET Unreadable

\* The user picks entry `value` of the FileFilter, which a dialog made with
\* filters has: the Select takes the value and posts Select.Changed.
SelectFilter ==
    /\ screen_mounted
    /\ _filters # NoFilters
    /\ \E value \in 0..(Len(_filters) - 1) :
          /\ value # select_value
          /\ CommitScreen(on_Select_Changed(
                 [Screen EXCEPT !.select_value = value], value))

\* The user edits the filename Input, which a single-file dialog has.
SetInputValue ==
    /\ screen_mounted
    /\ ~_allow_multiple
    /\ \E v \in InputValues : CommitScreen([Screen EXCEPT !.input_value = v])

\* The select button is pressed or the Input submitted, when the files
\* `gone` have been removed and list(selected_paths) is `selected_files`.
ConfirmWith(selected_files, gone) ==
    /\ screen_mounted
    /\ CommitScreen(_process_confirmation(Screen, selected_files, gone))

Confirm ==
    \E gone \in SUBSET Files :
        \E selected_files \in Lists(selected_paths) :
            ConfirmWith(selected_files, gone)

\* The cancel button is pressed, or escape.
Cancel == screen_mounted /\ CommitScreen(_cancel(Screen))

Next ==
    \/ Mount
    \/ SetLocation
    \/ SetLocationStale
    \/ NavigateUp
    \/ ToggleHidden
    \/ SetSortDisplay
    \/ SetFileFilter
    \/ SetShowFiles
    \/ SetAllowMultiple
    \/ Highlight
    \/ ToggleSelection
    \/ SelectOption
    \/ HandleOptionSelected
    \/ Worker
    \/ ScreenMount
    \/ HandleMessage
    \/ SetInputValue
    \/ Confirm
    \/ Cancel
    \/ SelectFilter
    \/ HandleOptionHighlighted
    \/ SetSelectedState

\* Every operation, in every order.
Spec == Init /\ [][Next]_vars

(* The specifications the properties are checked under: each takes the     *)
(* widget with the operations of one concern, in every order and with      *)
(* every interleaving of the worker threads.                               *)

\* The listing: navigation, loading and the settings the display depends on.
NextView ==
    \/ Mount
    \/ SetLocation
    \/ NavigateUp
    \/ ToggleHidden
    \/ SetSortDisplay
    \/ SetFileFilter
    \/ SetShowFiles
    \/ Highlight
    \/ Worker
    \/ HandleOptionHighlighted

SpecView == Init /\ [][NextView]_vars

\* Loading: the operations that start a scan, and the worker threads.
NextLoad ==
    \/ Mount
    \/ SetLocation
    \/ NavigateUp
    \/ SetShowFiles
    \/ Worker
    \/ HandleOptionHighlighted

SpecLoad == Init /\ [][NextLoad]_vars

\* Loading, with threads that are scheduled: a worker that can take a step
\* takes one in the end, and so does the widget with a message to handle.
SpecLoadFair ==
    /\ Init
    /\ [][NextLoad]_vars
    /\ WF_vars(Worker)
    /\ WF_vars(HandleOptionHighlighted)

\* Selection: multi-select mode, the highlight, toggling, navigation.
NextSel ==
    \/ Mount
    \/ SetLocation
    \/ NavigateUp
    \/ SetAllowMultiple
    \/ Highlight
    \/ ToggleSelection
    \/ Worker
    \/ HandleOptionHighlighted

SpecSel == Init /\ [][NextSel]_vars

\* Activation: rows chosen with Enter or a click, and navigation up.
NextAct ==
    \/ Mount
    \/ NavigateUp
    \/ SetAllowMultiple
    \/ SelectOption
    \/ HandleOptionSelected
    \/ Worker
    \/ HandleOptionHighlighted

SpecAct == Init /\ [][NextAct]_vars

\* The highlight: the steps that rebuild the display, with the highlight
\* moved by the user between them.
NextHighlight ==
    \/ Mount
    \/ NavigateUp
    \/ ToggleHidden
    \/ SetSortDisplay
    \/ SetFileFilter
    \/ Highlight
    \/ Worker
    \/ HandleOptionHighlighted

SpecHighlight == Init /\ [][NextHighlight]_vars

\* The highlight and the selection: every step that rebuilds the display at
\* one location, with the highlight moved by the user between them.
NextRebuild ==
    \/ Mount
    \/ ToggleHidden
    \/ SetSortDisplay
    \/ SetFileFilter
    \/ SetAllowMultiple
    \/ Highlight
    \/ ToggleSelection
    \/ Worker
    \/ HandleOptionHighlighted
    \/ SetSelectedState

SpecRebuild == Init /\ [][NextRebuild]_vars

\* Stale locations: navigation, with locations that cannot be scanned.
NextStale ==
    \/ Mount
    \/ SetLocation
    \/ SetLocationStale
    \/ NavigateUp
    \/ Worker
    \/ HandleOptionHighlighted

SpecStale == Init /\ [][NextStale]_vars

\* Activation alone: rows chosen with Enter or a click while the user also
\* moves the highlight; the location changes by activating directory rows.
NextActivate ==
    \/ Mount
    \/ SetAllowMultiple
    \/ Highlight
    \/ SelectOption
    \/ HandleOptionSelected
    \/ Worker
    \/ HandleOptionHighlighted

SpecActivate == Init /\ [][NextActivate]_vars

\* Activation from the root: a widget constructed at the root, whose
\* location changes only by the activation of directory rows.
InitEnter == Init /\ initial_location = Root

NextEnter ==
    \/ Mount
    \/ SetAllowMultiple
    \/ SelectOption
    \/ HandleOptionSelected
    \/ Worker
    \/ HandleOptionHighlighted

SpecEnter == InitEnter /\ [][NextEnter]_vars

\* The settings: every setting changed on a widget that stays where it was
\* constructed.
NextSettings ==
    \/ Mount
    \/ ToggleHidden
    \/ SetSortDisplay
    \/ SetFileFilter
    \/ SetShowFiles
    \/ SetAllowMultiple
    \/ Worker
    \/ HandleOptionHighlighted

SpecSettings == Init /\ [][NextSettings]_vars

\* Two widgets: the selection of one, with a second widget at rest.
NextTwin ==
    \/ Mount
    \/ NavigateUp
    \/ SetAllowMultiple
    \/ Highlight
    \/ ToggleSelection
    \/ Worker
    \/ HandleOptionHighlighted

SpecTwin == InitTwin /\ [][NextTwin]_vars

\* The dialog and navigation: the messages of the widget the dialog handles.
NextChanged ==
    \/ Mount
    \/ ScreenMount
    \/ SetLocation
    \/ NavigateUp
    \/ HandleMessage
    \/ Worker
    \/ HandleOptionHighlighted

SpecChanged == InitDialog /\ [][NextChanged]_vars

\* The dialog and its result: the filename typed, the files selected,
\* confirming and cancelling.
NextConfirm ==
    \/ Mount
    \/ ScreenMount
    \/ HandleMessage
    \/ SetInputValue
    \/ Highlight
    \/ ToggleSelection
    \/ Confirm
    \/ Cancel
    \/ Worker
    \/ HandleOptionHighlighted

SpecConfirm == InitDialog /\ [][NextConfirm]_vars

\* A dialog made with filters: its mount, the filter control, the listing
\* and its scans.
NextFilter ==
    \/ Mount
    \/ ScreenMount
    \/ SelectFilter
    \/ HandleMessage
    \/ NavigateUp
    \/ Highlight
    \/ Worker
    \/ HandleOptionHighlighted

SpecFilter == InitFilter /\ [][NextFilter]_vars

-----------------------------------------------------------------------------
(* Properties. *)

\* Is there a row for `path` in the listing?
Shown(path) == \E i \in 1..Len(options) : options[i].location = path

\* The hidden rule of the specification lets `path` pass.
HiddenRulePasses(path) == show_hidden \/ ~is_hidden(path)

\* C1: with show_hidden off no displayed row other than ".." has a name
\* that starts with "."; with show_hidden on the dot-named entries of the
\* cache (that the file filter does not drop) are displayed.
C1_HiddenEntriesFollowShowHidden ==
    /\ ~show_hidden =>
           \A i \in 1..Len(options) : ~is_hidden(options[i].location)
    /\ show_hidden =>
           \A k \in 1..Len(entries) :
               (is_hidden(entries[k]) /\ ~hide(Self, entries[k]))
                   => Shown(entries[k])

\* C2: a cached directory is never dropped by the file filter, and a cached
\* file is shown iff (file_filter is None or file_filter(file)) and the
\* hidden rule lets it pass.
C2_FilterPurity ==
    \A k \in 1..Len(entries) :
        LET e == entries[k]
        IN  /\ (is_dir(e) /\ HiddenRulePasses(e)) => Shown(e)
            /\ is_file(e) =>
                   (Shown(e) <=>
                       /\ file_filter = None \/ FilterAccepts(file_filter, e)
                       /\ HiddenRulePasses(e))

\* C3: the ".." row, when the listing has one, is the first row.
C3_ParentRowFirst ==
    \A i \in 1..Len(options) :
        PName(options[i].location) = ".." => i = 1

\* The position of `path` in the cache.
CacheIndex(path) == CHOOSE k \in 1..Len(entries) : entries[k] = path

\* C4: with sort_display on, every directory row precedes every file row
\* and rows of the same kind are in lexicographic order of their names;
\* with sort_display off the rows of cached entries keep the cache's order.
C4_SortOrder ==
    \A i, j \in 1..Len(options) :
        i < j =>
            LET a == options[i].location
                b == options[j].location
            IN  /\ sort_display =>
                    /\ is_dir(a) \/ ~is_dir(b)
                    /\ (is_dir(a) <=> is_dir(b)) =>
                           ~StrLess(Codes(PName(b)), Codes(PName(a)))
                /\ (~sort_display /\ PName(a) # ".." /\ PName(b) # "..") =>
                       CacheIndex(a) < CacheIndex(b)

\* C4 witness: a sorted listing with two directories and two files whose
\* order is not the order of the cache.
C4_Witness ==
    /\ sort_display
    /\ Len(options) = 4
    /\ Len(entries) = 3
    /\ options[2].location # entries[1]

\* C5: a cancelled worker never delivers: it neither replaces the cache nor
\* rebuilds the display.
C5_CancelledScanHasNoEffect ==
    [][\A i \in 1..Len(workers) : workers[i].cancelled => ~Deliver(i)]_vars

\* C6: every worker but the newest is cancelled, so at most one scan is
\* active; a new load does not wait for the scan it supersedes.
C6_ExclusiveWorker ==
    /\ \A i \in 1..(Len(workers) - 1) : workers[i].cancelled
    /\ Cardinality({i \in 1..Len(workers) : ~workers[i].cancelled}) <= 1

\* C6 witness: a superseded scan is still running, cancelled, while the
\* scan that superseded it is under way.
C6_Witness ==
    /\ Len(workers) = 2
    /\ workers[1].cancelled /\ workers[1].phase = "scan"
    /\ ~workers[2].cancelled /\ workers[2].phase = "scan"

\* C7: in multi-select mode a step that changes the location leaves the
\* selection empty.
C7_SelectionClearsOnNavigation ==
    [][(allow_multiple /\ selected_paths # {} /\ location' # location)
          => selected_paths' = {}]_vars

\* C7 witness: the location has just changed in multi-select mode; the
\* selection is empty while the listing, not yet rebuilt, still marks a row
\* of the selection that was dropped.
C7_Witness ==
    /\ allow_multiple
    /\ selected_paths = {}
    /\ posted = <<[type |-> "Changed", path |-> NoPath]>>
    /\ \E i \in 1..Len(options) : options[i].selected

\* C8: while allow_multiple is off the selection is empty.
C8_NoSelectionWhenSingle == ~allow_multiple => selected_paths = {}

\* C8 witness: multi-select is off and a file row is highlighted, where a
\* toggle is refused.
C8_Witness ==
    /\ mounted
    /\ ~allow_multiple
    /\ highlighted # NoneIdx
    /\ is_file(options[highlighted + 1].location)
    /\ selected_paths = {}

\* C9: a path enters the selection only as a file of the directory that is
\* the location at that moment.
C9_InsertedUnderLocation ==
    [][\A path \in selected_paths' \ selected_paths :
          is_file(path) /\ Parent(path) = location']_vars

\* A toggle is asked for while a file row is highlighted in multi-select mode.
ToggleApplies ==
    /\ allow_multiple
    /\ highlighted # NoneIdx
    /\ is_file(options[highlighted + 1].location)

\* C10: after a toggle of a file row and the rebuild it triggers, a second
\* toggle gives back the selection the first one started from.  (A rebuild
\* that raises shuts the application down: there is no second toggle.)
C10_ToggleTwiceRestores ==
    [][(ToggleSelection /\ ToggleApplies /\ ~crashed')
          => action_toggle_selection(Self').selected_paths = selected_paths]_vars

\* C10 witness: a file has been toggled into a selection that held another
\* file, and its row is the highlighted one.
C10_Witness ==
    /\ allow_multiple
    /\ Cardinality(selected_paths) = 2
    /\ highlighted # NoneIdx
    /\ options[highlighted + 1].selected

\* The path of the highlighted row, or NoPath.
HighlightedLocation ==
    IF highlighted # NoneIdx /\ Len(options) > 0
    THEN options[highlighted + 1].location
    ELSE NoPath

\* A step that rebuilds the display whatever the state: a delivery of loaded
\* paths, or a call of toggle_hidden.
Rebuild == WorkerDeliver \/ ToggleHidden

\* A step that rebuilds the display by changing a setting the rows depend on.
RebuildBySetting ==
    \/ SetSortDisplay /\ sort_display' # sort_display
    \/ SetFileFilter /\ file_filter' # file_filter

\* C11: after a rebuild of the display the row of the path highlighted
\* before it is highlighted when the new rows have that path; otherwise row
\* 0 is highlighted when there are rows, and nothing when there are none.
C11_HighlightPreserved ==
    [][(Rebuild \/ RebuildBySetting) =>
          IF FindRow(options', HighlightedLocation) # -1
          THEN /\ highlighted' # NoneIdx
               /\ options'[highlighted' + 1].location = HighlightedLocation
          ELSE IF Len(options') > 0 THEN highlighted' = 0
          ELSE highlighted' = NoneIdx]_vars

\* C11 witness: with the filter set, the row of b is highlighted at the
\* index it has once the row of .h is gone.
C11_Witness ==
    /\ file_filter = FilterB
    /\ sort_display
    /\ Len(options) = 3
    /\ highlighted = 2
    /\ options[3].location = <<"a", "b">>

\* The i-th worker is a scan that failed for lack of permission.
FailedScan(i) == workers[i].dir \in Unreadable

\* C12: when the scan that failed for lack of permission hands over its
\* result, the cache and the displayed rows stay as they were.
C12_DeniedScanKeepsDisplay ==
    [][\A i \in 1..Len(workers) :
          (FailedScan(i) /\ Deliver(i))
              => (entries' = entries /\ options' = options)]_vars

\* C13: the except clause of a scan that failed for lack of permission
\* posts one PermissionError message, and that message carries the directory
\* the scan tried to enumerate.
C13_PermissionErrorCarriesAttempted ==
    [][WorkerDenied =>
          \E i \in 1..Len(workers) :
              /\ workers[i].phase = "denied"
              /\ workers'[i].phase = "scan"
              /\ posted' = <<[type |-> "PermissionError",
                              path |-> workers[i].dir]>>]_vars

\* C14: when the scan started by a navigation has failed for lack of
\* permission and hands over its result, the location is not the directory
\* that could not be read.
C14_FailedNavigationDoesNotMove ==
    [][\A i \in 1..Len(workers) :
          (FailedScan(i) /\ ~workers[i].cancelled /\ Deliver(i))
              => location' # workers[i].dir]_vars

\* C15: a scan of a location that is no directory ends like a scan of an
\* empty directory: no exception leaves the worker.
C15_StaleScanCompletes ==
    \A i \in 1..Len(workers) : workers[i].phase # "error"

\* C16: on a mounted widget, assigning nav.location a path that, made
\* absolute, is the current location changes nothing: no scan is started, no
\* message is posted, and the selection, the cache and the display stay.
C16_SameLocationIsNoOp ==
    [][(mounted /\ \E p \in LocationInputs :
                      absolute(p) = location /\ Commit(set_location(Begin, p)))
          => /\ UNCHANGED <<location, selected_paths, entries, options,
                            highlighted, workers>>
             /\ posted' = <<>>]_vars

\* C16 witness: a mounted widget at the working directory with a selection
\* and no scan under way, where an assignment of "." is such a step.
C16_Witness ==
    /\ mounted
    /\ location = absolute(<<".">>)
    /\ selected_paths # {}
    /\ workers = <<>>
    /\ posted = <<>>

\* Assigning p to nav.location of an unmounted widget only records it.
PendingOnly(p) ==
    (~mounted /\ Commit(set_location(Begin, p))) =>
        (/\ initial_location' = absolute(p)
         /\ UNCHANGED <<mounted, location, workers, entries, options,
                        highlighted, selected_paths>>
         /\ posted' = <<>>)

\* The mount makes the pending location the location and starts its scan:
\* the handlers of the mount end without an exception and the newest worker
\* is one that nothing has cancelled.
MountLoadsPending ==
    Mount =>
        (/\ location' = initial_location
         /\ ~crashed'
         /\ workers' # <<>>
         /\ workers'[Len(workers')] = NewWorker)

\* What holds of the mount at every pending location that can be searched:
\* the display can be rebuilt there, and the mount starts the scan.
MountLoadsSearchable ==
    [][(Mount /\ initial_location \notin no_search) =>
          (/\ location' = initial_location
           /\ ~crashed'
           /\ workers' # <<>>
           /\ workers'[Len(workers')] = NewWorker)]_vars

\* C17: on an unmounted widget an assignment of nav.location only records
\* the pending location (no scan, no message, the location stays); the
\* mount makes the pending location the location and starts a scan that no
\* later load has superseded.
C17_PendingLocationTakenAtMount ==
    [][(\A p \in LocationInputs : PendingOnly(p)) /\ MountLoadsPending]_vars

\* C18: navigate_up is set_location(parent of the location), mounted or not.
C18_NavigateUpIsSetLocationParent ==
    [][NavigateUp => Commit(set_location(Begin, Parent(location)))]_vars

\* The path of the OptionSelected message handled next.
Activated == Resolve(Head(inbox).option)

\* C19: in multi-select mode the activation of a file row flips the
\* membership of the activated path and of no other, posts one Selected
\* message for it and leaves the location.
C19_ActivationTogglesActivated ==
    [][(HandleOptionSelected /\ allow_multiple /\ is_file(Activated)) =>
          /\ (Activated \in selected_paths') <=> (Activated \notin selected_paths)
          /\ selected_paths' \ {Activated} = selected_paths \ {Activated}
          /\ posted' = <<[type |-> "Selected", path |-> Activated]>>
          /\ location' = location]_vars

\* C20: the activation of a directory row makes that directory the location
\* and posts no Selected message; the activation of a file row in
\* single-select mode posts one Selected message for the file and changes
\* neither the location nor the selection, which is empty.
C20_ActivationByKind ==
    [][HandleOptionSelected =>
          IF is_dir(Activated)
          THEN /\ location' = Activated
               /\ \A k \in 1..Len(posted') : posted'[k].type # "Selected"
          ELSE ~allow_multiple =>
                   /\ posted' = <<[type |-> "Selected", path |-> Activated]>>
                   /\ location' = location
                   /\ selected_paths' = {}
                   /\ selected_paths = {}]_vars

\* C20 witness: in single-select mode a file row has just been activated.
C20_Witness ==
    /\ ~allow_multiple
    /\ posted = <<[type |-> "Selected", path |-> <<"a", "b">>]>>
    /\ location = <<"a">>
    /\ selected_paths = {}

\* C20 second witness: a directory row has just been activated and the
\* location, now that directory, is being scanned.
C20_WitnessDirectory ==
    /\ location = <<"a", "-d">>
    /\ posted = <<[type |-> "Changed", path |-> NoPath]>>
    /\ inbox = <<>>
    /\ Len(options) = 4

\* A step that changes show_hidden, sort_display, file_filter or
\* allow_multiple on a mounted widget.
DisplaySettingChanged ==
    /\ mounted
    /\ ToggleHidden \/ SetSortDisplay \/ SetFileFilter \/ SetAllowMultiple
    /\ <<show_hidden, sort_display, file_filter, allow_multiple>>' #
           <<show_hidden, sort_display, file_filter, allow_multiple>>

\* Such a step rebuilds the display from the cache and starts no scan.
RebuildsOnly ==
    DisplaySettingChanged =>
        (/\ workers' = workers
         /\ entries' = entries
         /\ options' = OptionsToAdd(Self'))

\* A change of show_files starts a scan and leaves the cache to it.
ShowFilesReloads ==
    (SetShowFiles /\ show_files' # show_files) =>
        (/\ Len(workers') = Len(workers) + 1
         /\ workers'[Len(workers')] = NewWorker
         /\ entries' = entries)

\* C21: a change of show_hidden, file_filter, sort_display or allow_multiple
\* on a mounted widget rebuilds the display from the cache, starts no scan
\* and leaves the cache; a change of show_files starts a scan.
C21_SettingsRebuildOrReload == [][RebuildsOnly /\ ShowFilesReloads]_vars

\* C21 witness: the filter has been set on a loaded listing with no scan
\* under way: the cache holds .h and the display does not show it.
C21_Witness ==
    /\ mounted
    /\ workers = <<>>
    /\ file_filter = FilterB
    /\ Len(entries) = 3
    /\ Len(options) = 3

\* C22: a toggle asked for with allow_multiple off, with nothing
\* highlighted, or with a directory row or the ".." row highlighted changes
\* nothing and posts nothing.
C22_InvalidToggleIsNoOp ==
    [][(ToggleSelection /\ ~ToggleApplies) =>
          (/\ UNCHANGED <<selected_paths, entries, options, highlighted,
                          location, workers>>
           /\ posted' = <<>>)]_vars

\* C22 witness: in multi-select mode with a file selected, the highlight is
\* on a directory row, where a toggle is refused.
C22_Witness ==
    /\ allow_multiple
    /\ selected_paths # {}
    /\ highlighted # NoneIdx
    /\ is_dir(options[highlighted + 1].location)
    /\ posted = <<>>

-----------------------------------------------------------------------------
\* The Changed messages among `msgs`.
ChangedIn(msgs) == {k \in 1..Len(msgs) : msgs[k].type = "Changed"}

\* A step that moves the widget, mounted by then, to another directory
\* posts Changed once, and no other step posts it.
ChangedOncePerNavigation ==
    Cardinality(ChangedIn(posted')) =
        IF mounted' /\ location' # location THEN 1 ELSE 0

\* When the dialog handles a Changed message no later navigation has been
\* made (no other Changed message waits behind it), so that the location it
\* reads from the widget is the one the message was posted for.
ChangedObservesItsLocation ==
    (HandleMessage /\ Head(queue).type = "Changed") =>
        /\ ChangedIn(Tail(queue)) = {}
        /\ current_path_display' = location

\* C23: a mounted widget posts Changed exactly once for each navigation to
\* another directory, and the location read when the message is handled is
\* the location of that navigation.
C23_ChangedOncePerNavigation ==
    [][ChangedOncePerNavigation /\ ChangedObservesItsLocation]_vars

-----------------------------------------------------------------------------
\* The path the filename typed names under the current location.
Chosen == Resolve(Append(location, input_value))

\* Confirming a single-file dialog whose input names a file that exists
\* dismisses the dialog with that path.
SingleConfirmDismisses ==
    \A gone \in SUBSET Files :
        (/\ ~_allow_multiple
         /\ input_value # ""
         /\ Chosen \in Files \ gone
         /\ ConfirmWith(<<>>, gone))
        => result' = [kind |-> "path", paths |-> <<Chosen>>]

\* A single-file dialog is dismissed with one path or with None.
SingleResultKinds ==
    ~_allow_multiple' => result'.kind \in {"open", "path", "none"}

\* C24: in a single-file dialog, confirming with a filename that names an
\* existing file under the current location dismisses the dialog with that
\* resolved path, and the only other result of a dismissal is None.
C24_SingleConfirmReturnsPath ==
    [][SingleConfirmDismisses /\ SingleResultKinds]_vars

-----------------------------------------------------------------------------
\* The members of a list.
Members(l) == {l[i] : i \in 1..Len(l)}

\* What a confirmation of a multiple-file dialog must do, by the selection
\* and the files `gone` by then.
MultiConfirmOutcome(gone) ==
    IF selected_paths = {}
    THEN /\ result' = NotDismissed
         /\ border_subtitle' = <<ERROR_NO_FILES_SELECTED>>
    ELSE IF selected_paths \subseteq Files \ gone
    THEN /\ result'.kind = "list"
         /\ Members(result'.paths) = selected_paths
         /\ Len(result'.paths) = Cardinality(selected_paths)
    ELSE /\ result' = NotDismissed
         /\ selected_paths' = selected_paths

MultiConfirmIsValidated ==
    \A gone \in SUBSET Files :
        \A selected_files \in Lists(selected_paths) :
            (_allow_multiple /\ ConfirmWith(selected_files, gone))
                => MultiConfirmOutcome(gone)

\* C25: confirming a multiple-file dialog with nothing selected reports
\* "No files selected" and does not dismiss; with a selection whose members
\* are all existing files it dismisses with exactly the members of
\* selected_paths; and when a member fails validation the dialog stays
\* open with selected_paths unchanged.
C25_MultiConfirmReturnsSelection == [][MultiConfirmIsValidated]_vars

\* A multiple-file dialog was dismissed with the two files selected.
C25_Witness ==
    /\ _allow_multiple
    /\ result.kind = "list"
    /\ Members(result.paths) = {<<"a", "b">>, <<"a", ".h">>}
    /\ selected_paths = {<<"a", "b">>, <<"a", ".h">>}

\* A confirmation failed validation: a file selected was gone by then.
C25_WitnessRefused ==
    /\ _allow_multiple
    /\ result = NotDismissed
    /\ selected_paths # {}
    /\ border_subtitle[1] = ERROR_SELECTION_IS_NOT_A_FILE

-----------------------------------------------------------------------------
\* The steps _load takes on the worker's thread.
OnWorkerThread == WorkerStart \/ WorkerScan \/ WorkerDenied

\* What a step on the worker's thread gives out: PermissionError messages.
PostsOnlyPermissionError ==
    \A k \in 1..Len(posted') : posted'[k].type = "PermissionError"

\* C26: a step on the worker's thread writes neither the cache, nor
\* selected_paths, nor the option list and its highlight; it only posts a
\* PermissionError message or moves on towards handing its result over, so
\* that every change of those is made by a step on the UI thread.
C26_WorkerThreadWritesNothing ==
    [][OnWorkerThread =>
          (/\ UNCHANGED <<entries, selected_paths, options, highlighted>>
           /\ UNCHANGED <<location, mounted, allow_multiple, show_files,
                          show_hidden, sort_display, file_filter>>
           /\ PostsOnlyPermissionError)]_vars

\* A worker has gathered paths of /a on its thread while the cache and the
\* option list still hold what was loaded for / .
C26_Witness ==
    /\ entries = << <<"a">> >>
    /\ Len(options) = 1
    /\ \E i \in 1..Len(workers) :
           /\ workers[i].phase = "scan"
           /\ workers[i].dir = <<"a">>
           /\ workers[i].loaded_paths # <<>>

-----------------------------------------------------------------------------
\* The i-th worker hands its result over only while it is the worker
\* started last, and its result is of the directory the widget is at.
DeliversNewest(i) ==
    Deliver(i) => (i = Len(workers) /\ workers[i].dir = location)

\* C27: a result applied to the cache is the result of the scan started
\* last: no result of an older scan is applied once a newer scan has been
\* started, so the entries of an older directory never replace those of the
\* directory navigated to later.
C27_ResultsFromNewestScan ==
    [][\A i \in 1..Len(workers) : DeliversNewest(i)]_vars

-----------------------------------------------------------------------------
\* The loader keeps a child: a directory, or a file when files are shown.
Keeps(c) == is_dir(c) \/ (is_file(c) /\ show_files)

\* The children of d the loader keeps, in the order iterdir yields them.
Qualifying(d) == SelectSeq(iterdir(d), Keeps)

\* Every scan has ended: nothing is left that could change the cache until
\* a further load is started.
ScansEnded == mounted /\ workers = <<>>

\* C28: once the scans started for a readable directory have ended, the
\* cache holds exactly the qualifying children of that directory and the
\* option list has been rebuilt from it; the widget is never left with the
\* entries of the directory it was at before.
C28_ScanSettlesOnLocation ==
    (ScansEnded /\ location \in Dirs \ Unreadable) =>
        /\ entries = Qualifying(location)
        /\ options = OptionsToAdd(Self)

-----------------------------------------------------------------------------
\* The i-th worker ends a scan that was neither cancelled nor refused.
CompletesScan(i) ==
    /\ Deliver(i)
    /\ ~workers[i].cancelled
    /\ workers[i].dir \notin Unreadable

\* No file is in the cache or in a row of the option list.
NoFileLoaded ==
    /\ \A k \in 1..Len(entries) : ~is_file(entries[k])
    /\ \A k \in 1..Len(options) : ~is_file(options[k].location)

LoaderInclusion(i) ==
    CompletesScan(i) =>
        /\ entries' = Qualifying(workers[i].dir)
        /\ ~show_files => NoFileLoaded'

\* C29: when the scan of a directory ends without cancellation or error,
\* the cache is exactly the children of that directory that are directories,
\* or files while show_files is set; with show_files unset the cache and the
\* listing then hold no file.
C29_LoaderInclusionRule ==
    [][\A i \in 1..Len(workers) : LoaderInclusion(i)]_vars

\* The scan of /a has ended with show_files unset: of its three children
\* only the directory -d is in the cache.
C29_Witness ==
    /\ mounted
    /\ ~show_files
    /\ location = <<"a">>
    /\ workers = <<>>
    /\ entries = << <<"a", "-d">> >>

-----------------------------------------------------------------------------
\* The k-th row is marked exactly when multi-select is on, its path is in
\* selected_paths and it is not a directory.
MarkerTracksSelection(k) ==
    selection_marker(options[k]) <=>
        /\ allow_multiple
        /\ options[k].location \in selected_paths
        /\ ~is_dir(options[k].location)

\* C30: the rows of the listing are marked as selected exactly for the
\* files of selected_paths while allow_multiple is on, and the ".." row
\* never is; no row stays marked once selected_paths has been emptied by a
\* navigation or by turning allow_multiple off.
C30_MarkersTrackSelection ==
    \A k \in 1..Len(options) :
        /\ MarkerTracksSelection(k)
        /\ PName(options[k].location) = ".." => ~selection_marker(options[k])

-----------------------------------------------------------------------------
\* A listing with rows has a highlighted row, and its index is one of theirs.
HighlightValid ==
    Len(options) > 0 => highlighted \in 0..(Len(options) - 1)

\* The steps that rebuild the display, or may: a delivery of loaded paths,
\* a toggle of the selection or of show_hidden, a change of the filter, of
\* the sort order or of allow_multiple.
RebuildStep ==
    \/ WorkerDeliver
    \/ ToggleSelection
    \/ ToggleHidden
    \/ SetFileFilter
    \/ SetSortDisplay
    \/ SetAllowMultiple

\* C31: after every rebuild of the display a listing that has rows has a
\* highlight, whose index is at least 0 and less than the number of rows;
\* toggling a selection or show_hidden and changing the filter or the sort
\* order never leave a listing with rows without a highlighted row.
C31_HighlightValid == [][(mounted /\ RebuildStep) => HighlightValid']_vars

\* The filter has been installed while the last of several rows was
\* highlighted: the rebuilt listing is shorter and a row of it is
\* highlighted.
C31_Witness ==
    /\ mounted
    /\ file_filter = FilterB
    /\ location = <<"a">>
    /\ Len(entries) = 3
    /\ Len(options) < 4
    /\ highlighted = Len(options) - 1

-----------------------------------------------------------------------------
\* The dialog has handled every message and no scan is left.
Settled == screen_mounted /\ workers = <<>> /\ queue = <<>>

\* Once all is handled, a dialog whose widget went into a directory that
\* cannot be read shows the permission error: the Changed message of that
\* navigation was handled before the PermissionError of its scan.
ErrorOutlastsChanged ==
    (Settled /\ location \in Unreadable) =>
        border_subtitle = <<ERROR_PERMISSION_ERROR>>

\* Handling PermissionError shows the error; handling Changed clears it.
ErrorShownAndCleared ==
    HandleMessage =>
        /\ Head(queue).type = "PermissionError" =>
               border_subtitle' = <<ERROR_PERMISSION_ERROR>>
        /\ Head(queue).type = "Changed" => border_subtitle' = <<"">>

\* C32: for a navigation into a directory that cannot be read the dialog
\* handles Changed before the PermissionError of that navigation's scan, so
\* that it ends showing the permission error; the next Changed message
\* handled clears the error.
C32_ErrorAfterChanged ==
    [][ErrorOutlastsChanged' /\ ErrorShownAndCleared]_vars

\* The dialog shows the permission error at /a/-d, which the widget was
\* moved to after mounting, with everything handled.
C32_Witness ==
    /\ Settled
    /\ initial_location # <<"a", "-d">>
    /\ location = <<"a", "-d">>
    /\ border_subtitle = <<ERROR_PERMISSION_ERROR>>
    /\ current_path_display = <<"a", "-d">>

\* The permission error has been cleared by the Changed message of a later
\* navigation.
C32_WitnessCleared ==
    /\ Settled
    /\ initial_location = <<"a", "-d">>
    /\ location = <<"a">>
    /\ border_subtitle = <<"">>
    /\ current_path_display = <<"a">>

-----------------------------------------------------------------------------
\* C33: no toggle, clearing, navigation or change of allow_multiple on one
\* widget changes the selection set of another widget, although both may
\* hold the one default set object of the class.
C33_SelectionSetsIndependent ==
    [][other_selected_paths' = other_selected_paths]_vars

\* The first widget has a file selected, in a set object of its own since
\* the toggle, while the second, which held the one set object of the class
\* with it, still has an empty selection.
C33_Witness ==
    /\ other_selected_paths = {}
    /\ ~shared
    /\ allow_multiple
    /\ selected_paths # {}

\* The first widget's selection was emptied in place by a navigation while
\* both widgets still held the one set object.
C33_WitnessShared ==
    /\ shared
    /\ mounted
    /\ allow_multiple
    /\ location # initial_location
    /\ options # <<>>

-----------------------------------------------------------------------------
\* The FileFilter of the dialog takes the value `i` in this step.
ControlChangesTo(i) == select_value # i /\ select_value' = i

\* When the control changes to entry i, the widget's filter is the i-th
\* predicate of the dialog's filters and the rows are those of that filter.
FilterFollowsControl ==
    \A i \in 0..(Len(_filters) - 1) :
        ControlChangesTo(i) =>
            (/\ file_filter' = Filters_getitem(_filters, i)
             /\ options' = OptionsToAdd(Self'))

\* The mount of a dialog made with filters installs its first filter.
FilterInitialisedAtMount ==
    (~screen_mounted /\ screen_mounted' /\ _filters # NoFilters) =>
        file_filter' = Filters_getitem(_filters, 0)

\* C34: when the filter control of the dialog changes to entry i of the
\* dialog's filters, the widget's file_filter becomes the i-th predicate and
\* the display is rebuilt under it; the mount of a dialog made with filters
\* sets file_filter to entry 0.
C34_FilterFollowsControl ==
    [][FilterFollowsControl /\ FilterInitialisedAtMount]_vars
====
